---- MODULE Spec2Model ----
(***************************************************************************)
(* Gotham Night Patrol Simulator (lesson_3/solution.py) as a state         *)
(* machine.  The pure components (dispatch_hero, match_hero_to_crime,      *)
(* prioritize_crimes, generate_crime_events, validate_patrol_config) are   *)
(* operators; run_patrol is a sequence of actions over the run's state.    *)
(* Every draw from the random source is a nondeterministic choice.         *)
(***************************************************************************)
EXTENDS Integers, Sequences, FiniteSets, TLC

VARIABLES
    pc,                 \* phase of run_patrol
    at,                 \* position inside the body of the dispatch loop
    num_heroes,         \* argument of run_patrol
    num_areas,          \* argument of run_patrol
    selected_heroes,    \* list of responders sampled for the run
    available_heroes,   \* the availability pool (list, order matters for ties)
    patrol_areas,       \* the patrol set (only membership is ever read)
    crime_events,       \* the generated incidents, in generation order
    prioritized_crimes, \* the sorted list, as references (indices) into crime_events
    idx,                \* position of the for-loop in prioritized_crimes
    successes, failures, unhandled,
    best_hero,          \* local of the loop body
    returned,           \* <<>> while running, <<value>> once run_patrol returned
    log,                \* lines written by log_patrol_event, by kind
    trace,              \* history of what the loop did to each incident
    call,               \* arguments of a direct call of one component
    ret,                \* <<>> before the call, <<value>> after
    criminals_db,       \* the criminal store of the Batcomputer API (lesson_5)
    response,           \* <<>> before any request, <<response>> of the last request
    inmates_db,         \* the inmate store of the Arkham API (lesson_7)
    incidents_db,       \* the incident store of the Arkham API
    treatment_records_db, \* the records of treatments assigned to inmates
    ids_issued,         \* history: the inmate ids handed out so far, in order
    health,             \* Character.health of each character (lesson_4)
    villains_captured,  \* Hero.villains_captured of each hero
    is_captured         \* Villain.is_captured of each villain

vars == <<pc, at, num_heroes, num_areas, selected_heroes, available_heroes,
          patrol_areas, crime_events, prioritized_crimes, idx, successes,
          failures, unhandled, best_hero, returned, log, trace, call, ret,
          criminals_db, response, inmates_db, incidents_db, treatment_records_db,
          ids_issued, health, villains_captured, is_captured>>

run_vars == <<pc, at, num_heroes, num_areas, selected_heroes, available_heroes,
              patrol_areas, crime_events, prioritized_crimes, idx, successes,
              failures, unhandled, best_hero, returned, trace>>

store_vars == <<criminals_db, response>>

arkham_vars == <<inmates_db, incidents_db, treatment_records_db, ids_issued>>

gotham_vars == <<health, villains_captured, is_captured>>

(***************************************************************************)
(* Bounds of the exploration.  The random source may return any element;   *)
(* the model follows only the first few of each list it is given.          *)
(***************************************************************************)
\* random.choice(CRIME_TYPES): the first TypeWidth types are followed
TypeWidth == 2
\* random.randint(lo, hi): the SevWidth values lo, lo+1, .. are followed
SevWidth == 2
\* random.choice(available_areas), random.sample(GOTHAM_AREAS, k)
AreaWidth == 2
\* random.sample(BAT_FAMILY, k)
HeroWidth == 2
\* valid responder counts given to run_patrol: 1..MaxHeroesIn
MaxHeroesIn == 2
\* valid area counts given to run_patrol: 1..MaxAreasIn
MaxAreasIn == 1
\* direct calls of dispatch_hero: effectiveness 1..MaxEffectiveness
MaxEffectiveness == 10
\* direct calls of dispatch_hero: severity 1..MaxSeverity
MaxSeverity == 10
\* direct calls of match_hero_to_crime: pools of at most MaxPool responders
MaxPool == 3
\* direct calls of prioritize_crimes: at most MaxSortLen incidents
MaxSortLen == 3
\* direct calls of prioritize_crimes: severities 3..(2 + SortSevs)
SortSevs == 2
\* direct calls of generate_crime_events: counts 0..MaxGenEvents
\* direct calls of prioritize_crimes on incidents that differ in location:
\* crime types and locations followed
StableTypes == 1
StableAreas == 2
\* requests to the criminal store: largest id requested or handed out
MaxCriminalId == 7
\* the pool followed through the iterations of the loop: largest team selected
MaxTeam == 3
\* requests to the Arkham stores: largest inmate id requested, number of ids
\* handed out (the two of the sample data included), sizes of the stores
MaxInmateId == 4
MaxIssued == 5
MaxIncidents == 2
MaxRecords == 3
\* treatment ids requested: 1..MaxTreatmentId (the sample data has 1 and 2)
MaxTreatmentId == 3
\* staff lists of the incidents reported (the sample data has staff 1 and 2)
StaffLists == {{2}, {2, 3}}
\* direct calls of list_inmates: inmates admitted after the sample data, pages
\* and page sizes requested
MaxAdmitted == 3
MaxPage == 4
MaxSize == 3
\* fights of the Gotham Protectors System: a villain is followed through
\* MaxBlows lost fights in a row (health 100 - 30 * MaxBlows at the least), a
\* hero through MaxInjuries injuries
MaxBlows == 6
MaxInjuries == 2
MaxGenEvents == 3
\* direct calls of generate_crime_events over every type and severity: largest
\* count requested, positions of available_areas followed
MaxSevEvents == 2
SevAreaWidth == 1
\* direct calls of generate_crime_events up to exhaustion of the locations:
\* largest count requested, positions of available_areas followed
MaxManyEvents == 9
ManyAreaWidth == 2

Min(a, b) == IF a < b THEN a ELSE b
Max(a, b) == IF a > b THEN a ELSE b
Range(s) == {s[i] : i \in DOMAIN s}

(***************************************************************************)
(* Module-level tables                                                     *)
(***************************************************************************)
GOTHAM_AREAS ==
    <<"Amusement Mile", "Diamond District", "East End", "Financial District",
      "Gotham Heights", "Robinson Park", "Chinatown", "Arkham Asylum">>

BAT_FAMILY ==
    << [name |-> "Batman",    specialty |-> "Combat",     effectiveness |-> 10],
       [name |-> "Robin",     specialty |-> "Acrobatics", effectiveness |-> 7],
       [name |-> "Batgirl",   specialty |-> "Hacking",    effectiveness |-> 8],
       [name |-> "Nightwing", specialty |-> "Stealth",    effectiveness |-> 9],
       [name |-> "Red Hood",  specialty |-> "Firearms",   effectiveness |-> 8] >>

CRIME_TYPES ==
    <<"Robbery", "Assault", "Kidnapping", "Drug Deal", "Illegal Weapons",
      "Super-villain Activity">>

\* SPECIALTY_MATCHING.get(crime_type, [])
SPECIALTY_MATCHING(crime_type) ==
    CASE crime_type = "Robbery"                -> {"Combat", "Stealth"}
      [] crime_type = "Assault"                -> {"Combat", "Acrobatics"}
      [] crime_type = "Kidnapping"             -> {"Stealth", "Combat"}
      [] crime_type = "Drug Deal"              -> {"Stealth", "Firearms"}
      [] crime_type = "Illegal Weapons"        -> {"Firearms", "Combat"}
      [] crime_type = "Super-villain Activity" -> {"Combat", "Acrobatics", "Firearms"}
      [] OTHER                                 -> {}

\* CRIME_PRIORITY.get(crime_type, 999)
CRIME_PRIORITY(crime_type) ==
    CASE crime_type = "Super-villain Activity" -> 1
      [] crime_type = "Kidnapping"             -> 2
      [] crime_type = "Assault"                -> 3
      [] crime_type = "Robbery"                -> 4
      [] crime_type = "Illegal Weapons"        -> 5
      [] crime_type = "Drug Deal"              -> 6
      [] OTHER                                 -> 999

\* the value None where a responder is expected
NoHero == [name |-> "None", specialty |-> "None", effectiveness |-> 0]

(***************************************************************************)
(* The random source                                                       *)
(***************************************************************************)
\* random.choice(seq), following the first w elements
Choice(seq, w) == {seq[i] : i \in 1..Min(Len(seq), w)}

RemoveAt(seq, i) == SubSeq(seq, 1, i - 1) \o SubSeq(seq, i + 1, Len(seq))

\* random.sample(seq, k): k distinct elements in the order drawn
RECURSIVE Sample(_, _, _)
Sample(seq, k, w) ==
    IF k = 0 THEN {<<>>}
    ELSE UNION { { <<seq[i]>> \o rest : rest \in Sample(RemoveAt(seq, i), k - 1, w) }
                 : i \in 1..Min(Len(seq), w) }

(***************************************************************************)
(* generate_crime_events                                                   *)
(***************************************************************************)
\* what the random source returns in one iteration of the loop: the crime
\* type, the position drawn in available_areas and the offset drawn in the
\* severity range
Draws ==
    [type : Choice(CRIME_TYPES, TypeWidth), area : 1..AreaWidth, sev : 0..(SevWidth - 1)]

\* random.choice(seq) for the position drawn
Pick(seq, k) == seq[((k - 1) % Len(seq)) + 1]

\* random.randint(lo, hi) for the offset drawn
RandIntAt(lo, hi, d) == lo + (d % (hi - lo + 1))

new_event(crime_type, location, severity) ==
    [type |-> crime_type, location |-> location, severity |-> severity,
     status |-> "Active"]

\* variant: one severity range for every type
draw_severity_uniform(crime_type, d) == RandIntAt(3, 8, d)

\* random.randint(7, 10) for the super-villain type, random.randint(3, 8) otherwise
draw_severity(crime_type, d) ==
    IF crime_type = "Super-villain Activity"
    THEN RandIntAt(7, 10, d)
    ELSE RandIntAt(3, 8, d)

\* variant: the used locations are not filtered out
areas_all(used_areas) == GOTHAM_AREAS

\* [area for area in GOTHAM_AREAS if area not in used_areas]
areas_not_used(used_areas) == SelectSeq(GOTHAM_AREAS, LAMBDA area : area \notin used_areas)

\* the for-loop with the draws of its remaining iterations
RECURSIVE generate_loop(_, _, _)
generate_loop(remaining, events, draws) ==
    IF remaining <= 0 THEN events
    ELSE LET used_areas == {events[i].location : i \in DOMAIN events}
             available_areas == areas_not_used(used_areas)
             crime_type == Head(draws).type
         IN  IF available_areas = <<>> THEN events
             ELSE generate_loop(remaining - 1,
                                Append(events,
                                       new_event(crime_type,
                                                 Pick(available_areas, Head(draws).area),
                                                 draw_severity(crime_type, Head(draws).sev))),
                                Tail(draws))

\* variant: the loop runs one iteration short
generate_crime_events_short(num_events, draws) == generate_loop(num_events - 1, <<>>, draws)

\* for _ in range(num_events)
generate_crime_events(num_events, draws) == generate_loop(num_events, <<>>, draws)

\* num_events is None: random.randint(1, 3)
DefaultCounts == 1..3

\* the batches generate_crime_events() can return when called without a count
default_batches ==
    UNION {{generate_crime_events(n, draws) : draws \in [1..n -> Draws]} : n \in DefaultCounts}

(***************************************************************************)
(* validate_patrol_config: TRUE when it returns, FALSE when it raises      *)
(* ValueError                                                              *)
(***************************************************************************)
\* variant: the lower limit of the responder count is off by one
validate_allows_zero(heroes, areas) ==
    IF heroes < 0 THEN FALSE
    ELSE IF heroes > Len(BAT_FAMILY) THEN FALSE
    ELSE IF areas < 1 THEN FALSE
    ELSE IF areas > Len(GOTHAM_AREAS) THEN FALSE
    ELSE TRUE

validate_patrol_config(heroes, areas) ==
    IF heroes < 1 THEN FALSE
    ELSE IF heroes > Len(BAT_FAMILY) THEN FALSE
    ELSE IF areas < 1 THEN FALSE
    ELSE IF areas > Len(GOTHAM_AREAS) THEN FALSE
    ELSE TRUE

(***************************************************************************)
(* dispatch_hero                                                           *)
(***************************************************************************)
\* variant: the ceiling is 100 instead of 95
success_chance_ceiling_100(hero, crime) ==
    LET base_chance == hero.effectiveness * 10
        specialty_bonus == IF hero.specialty \in SPECIALTY_MATCHING(crime.type) THEN 20 ELSE 0
        severity_penalty == crime.severity * 5
        batman_bonus == IF hero.name = "Batman" THEN 15 ELSE 0
    IN  Max(5, Min(100, base_chance + specialty_bonus - severity_penalty + batman_bonus))

success_chance(hero, crime) ==
    LET base_chance == hero.effectiveness * 10
        specialty_bonus == IF hero.specialty \in SPECIALTY_MATCHING(crime.type) THEN 20 ELSE 0
        severity_penalty == crime.severity * 5
        batman_bonus == IF hero.name = "Batman" THEN 15 ELSE 0
    IN  Max(5, Min(95, base_chance + specialty_bonus - severity_penalty + batman_bonus))

\* variant: the lines are written whether or not a log file is given
dispatch_hero_log_always(hero, crime, log_file) ==
    (IF hero.specialty \in SPECIALTY_MATCHING(crime.type)
     THEN <<"specialty is effective">> ELSE <<>>)
    \o <<"dispatch result", "dispatch details">>

\* the lines dispatch_hero writes when it is given a log file
dispatch_hero_log(hero, crime, log_file) ==
    IF ~log_file THEN <<>>
    ELSE (IF hero.specialty \in SPECIALTY_MATCHING(crime.type)
          THEN <<"specialty is effective">> ELSE <<>>)
         \o <<"dispatch result", "dispatch details">>

\* variant: success needs a roll strictly below the chance
dispatch_hero_strict(hero, crime, roll) ==
    LET chance == success_chance(hero, crime)
    IN  [success |-> roll < chance, chance |-> chance, roll |-> roll]

\* the result record for the random roll drawn
dispatch_hero(hero, crime, roll) ==
    LET chance == success_chance(hero, crime)
    IN  [success |-> roll <= chance, chance |-> chance, roll |-> roll]

(***************************************************************************)
(* prioritize_crimes: sorted() is stable, so is the insertion below        *)
(***************************************************************************)
\* variant: severity ascending
key_less_ascending(a, b) ==
    \/ a.severity < b.severity
    \/ /\ a.severity = b.severity
       /\ CRIME_PRIORITY(a.type) < CRIME_PRIORITY(b.type)

\* the key (-severity, priority) of a before the key of b
key_less(a, b) ==
    \/ -a.severity < -b.severity
    \/ /\ a.severity = b.severity
       /\ CRIME_PRIORITY(a.type) < CRIME_PRIORITY(b.type)

\* variant: i placed in front of the indices whose key is equal
insert_sorted_front(crimes, order, i) ==
    LET before == {k \in DOMAIN order : key_less(crimes[order[k]], crimes[i])}
        n == Cardinality(before)
    IN  SubSeq(order, 1, n) \o <<i>> \o SubSeq(order, n + 1, Len(order))

\* i placed behind every index whose key is not greater
insert_sorted(crimes, order, i) ==
    LET before == {k \in DOMAIN order : ~key_less(crimes[i], crimes[order[k]])}
        n == Cardinality(before)
    IN  SubSeq(order, 1, n) \o <<i>> \o SubSeq(order, n + 1, Len(order))

RECURSIVE sort_upto(_, _)
sort_upto(crimes, n) ==
    IF n = 0 THEN <<>> ELSE insert_sorted(crimes, sort_upto(crimes, n - 1), n)

\* variant: the list is left in generation order
sort_order_unsorted(crimes) == [k \in 1..Len(crimes) |-> k]

\* the sorted list as references into crimes
sort_order(crimes) == sort_upto(crimes, Len(crimes))

prioritize_crimes(crimes) == [k \in 1..Len(crimes) |-> crimes[sort_order(crimes)[k]]]

(***************************************************************************)
(* match_hero_to_crime                                                     *)
(***************************************************************************)
\* variant: Batman gets no bonus
hero_score_no_bonus(hero, crime) ==
    hero.effectiveness
    + (IF hero.specialty \in SPECIALTY_MATCHING(crime.type) THEN 3 ELSE 0)

hero_score(hero, crime) ==
    hero.effectiveness
    + (IF hero.specialty \in SPECIALTY_MATCHING(crime.type) THEN 3 ELSE 0)
    + (IF hero.name = "Batman" THEN 2 ELSE 0)

\* variant: a later responder with an equal score replaces the best one
RECURSIVE match_loop_last(_, _, _, _, _)
match_loop_last(heroes, crime, i, best, best_score) ==
    IF i > Len(heroes) THEN <<best, best_score>>
    ELSE IF hero_score(heroes[i], crime) >= best_score
         THEN match_loop_last(heroes, crime, i + 1, heroes[i], hero_score(heroes[i], crime))
         ELSE match_loop_last(heroes, crime, i + 1, best, best_score)

\* the for-loop from position i on: <<best_hero, best_score>>
RECURSIVE match_loop(_, _, _, _, _)
match_loop(heroes, crime, i, best, best_score) ==
    IF i > Len(heroes) THEN <<best, best_score>>
    ELSE IF hero_score(heroes[i], crime) > best_score
         THEN match_loop(heroes, crime, i + 1, heroes[i], hero_score(heroes[i], crime))
         ELSE match_loop(heroes, crime, i + 1, best, best_score)

match_hero_to_crime(heroes, crime) ==
    IF heroes = <<>> THEN NoHero
    ELSE match_loop(heroes, crime, 1, NoHero, -1)[1]

\* the lines match_hero_to_crime writes when it is given a log file
match_hero_log(heroes, crime, log_file) ==
    IF ~log_file THEN <<>>
    ELSE IF heroes = <<>> THEN <<"No heroes available to handle crime!">>
    ELSE IF match_hero_to_crime(heroes, crime) # NoHero THEN <<"Selected">>
    ELSE <<>>

(***************************************************************************)
(* run_patrol                                                              *)
(***************************************************************************)
\* an entry of the history: what the loop did, to which incident, with whom
Did(op, crime, hero) == [op |-> op, crime |-> crime, hero |-> hero]

\* responder and area counts a run is started with: the valid ones followed,
\* and the invalid ones on both sides of each range
HeroCounts == 0..MaxHeroesIn \cup {Len(BAT_FAMILY) + 1}
AreaCounts == 0..MaxAreasIn \cup {Len(GOTHAM_AREAS) + 1}

\* the sample criminal database the API module starts with: the id, the name
\* (standing for the fields a request body carries) and the names of the
\* crimes on record
criminals_db_sample ==
    <<[id |-> 1, name |-> "Joker", crimes |-> <<"Bank Robbery", "Arkham Breakout">>],
      [id |-> 2, name |-> "Penguin", crimes |-> <<"Weapons Smuggling">>],
      [id |-> 3, name |-> "Riddler", crimes |-> <<"City Infrastructure Hack">>],
      [id |-> 4, name |-> "Harley Quinn", crimes |-> <<"Jewelry Store Heist">>],
      [id |-> 5, name |-> "Poison Ivy", crimes |-> <<"Botanical Gardens Takeover">>]>>

store_idle ==
    /\ criminals_db = criminals_db_sample
    /\ response = <<>>

\* the sample data of the Arkham API (gotham_fastapi/lesson_7/solution.py),
\* with the fields the handlers read
inmates_db_sample ==
    <<[id |-> 1, name |-> "Edward Nygma", danger_level |-> 7, cell_block |-> "B",
       is_active |-> TRUE],
      [id |-> 2, name |-> "Harvey Dent", danger_level |-> 8, cell_block |-> "A",
       is_active |-> TRUE]>>

staff_db == <<[id |-> 1, name |-> "Dr. Joan Leland"], [id |-> 2, name |-> "Aaron Cash"]>>

treatments_db ==
    <<[id |-> 1, name |-> "Cognitive Behavioral Therapy"],
      [id |-> 2, name |-> "Pharmacotherapy"]>>

incidents_db_sample == <<[id |-> 1, inmate_id |-> 1, staff_involved |-> {2}]>>

treatment_records_db_sample ==
    <<[id |-> 1, treatment_id |-> 1, inmate_id |-> 1],
      [id |-> 2, treatment_id |-> 2, inmate_id |-> 2]>>

arkham_idle ==
    /\ inmates_db = inmates_db_sample
    /\ incidents_db = incidents_db_sample
    /\ treatment_records_db = treatment_records_db_sample
    /\ ids_issued = <<1, 2>>

\* the characters of the Gotham Protectors System followed
\* (gotham_fastapi/lesson_4/solution.py): two heroes and one villain
Heroes == {"Batman", "Robin"}

Villains == {"Joker"}

\* Character.__init__, Hero.__init__, Villain.__init__
gotham_idle ==
    /\ health = [c \in Heroes \cup Villains |-> 100]
    /\ villains_captured = [h \in Heroes |-> <<>>]
    /\ is_captured = [v \in Villains |-> FALSE]

no_call == /\ call = <<>>
           /\ ret = <<>>

run_idle ==
    /\ at = "head"
    /\ num_heroes = 0
    /\ num_areas = 0
    /\ selected_heroes = <<>>
    /\ available_heroes = <<>>
    /\ patrol_areas = {}
    /\ crime_events = <<>>
    /\ prioritized_crimes = <<>>
    /\ idx = 0
    /\ successes = 0
    /\ failures = 0
    /\ unhandled = 0
    /\ best_hero = NoHero
    /\ returned = <<>>
    /\ log = <<>>
    /\ trace = <<>>

Init ==
    /\ pc = "Configuring"
    /\ at = "head"
    /\ num_heroes \in HeroCounts
    /\ num_areas \in AreaCounts
    /\ selected_heroes = <<>>
    /\ available_heroes = <<>>
    /\ patrol_areas = {}
    /\ crime_events = <<>>
    /\ prioritized_crimes = <<>>
    /\ idx = 0
    /\ successes = 0
    /\ failures = 0
    /\ unhandled = 0
    /\ best_hero = NoHero
    /\ returned = <<>>
    /\ log = <<>>
    /\ trace = <<>>
    /\ no_call
    /\ store_idle
    /\ arkham_idle
    /\ gotham_idle

\* lines 249-251, written before the try block
begin_log == <<"PATROL BEGINNING", "Deploying">>

\* ConfigureAbort that reports the error and lets the run go on
ConfigureAbort_carry_on ==
    /\ pc = "Configuring"
    /\ ~validate_patrol_config(num_heroes, num_areas)
    /\ log' = log \o begin_log \o <<"CONFIGURATION ERROR">>
    /\ pc' = "Generating"
    /\ UNCHANGED <<at, num_heroes, num_areas, selected_heroes, available_heroes,
                   patrol_areas, crime_events, prioritized_crimes, idx, successes,
                   failures, unhandled, best_hero, returned, trace, call, ret, store_vars, arkham_vars, gotham_vars>>

\* validate_patrol_config raises: except ValueError, return False
ConfigureAbort ==
    /\ pc = "Configuring"
    /\ ~validate_patrol_config(num_heroes, num_areas)
    /\ log' = log \o begin_log \o <<"CONFIGURATION ERROR">>
    /\ returned' = <<FALSE>>
    /\ pc' = "Aborted"
    /\ UNCHANGED <<at, num_heroes, num_areas, selected_heroes, available_heroes,
                   patrol_areas, crime_events, prioritized_crimes, idx, successes,
                   failures, unhandled, best_hero, trace, call, ret, store_vars, arkham_vars, gotham_vars>>

\* variant: the pool starts empty instead of as a copy of the team
ConfigureOk_empty_pool ==
    /\ pc = "Configuring"
    /\ validate_patrol_config(num_heroes, num_areas)
    /\ \E heroes \in Sample(BAT_FAMILY, num_heroes, HeroWidth),
          areas \in Sample(GOTHAM_AREAS, num_areas, AreaWidth) :
          /\ selected_heroes' = heroes
          /\ available_heroes' = <<>>
          /\ patrol_areas' = Range(areas)
          /\ log' = log \o begin_log \o <<"PATROL TEAM">> \o [i \in 1..Len(heroes) |-> "team member"]
                        \o <<"PATROL AREAS">> \o [i \in 1..Len(areas) |-> "Patrolling"]
    /\ pc' = "Generating"
    /\ UNCHANGED <<at, num_heroes, num_areas, crime_events, prioritized_crimes, idx,
                   successes, failures, unhandled, best_hero, returned, trace, call, ret, store_vars, arkham_vars, gotham_vars>>

\* validation passes: the team and the patrol areas are sampled
ConfigureOk ==
    /\ pc = "Configuring"
    /\ validate_patrol_config(num_heroes, num_areas)
    /\ \E heroes \in Sample(BAT_FAMILY, num_heroes, HeroWidth),
          areas \in Sample(GOTHAM_AREAS, num_areas, AreaWidth) :
          /\ selected_heroes' = heroes
          /\ available_heroes' = heroes
          /\ patrol_areas' = Range(areas)
          /\ log' = log \o begin_log \o <<"PATROL TEAM">> \o [i \in 1..Len(heroes) |-> "team member"]
                        \o <<"PATROL AREAS">> \o [i \in 1..Len(areas) |-> "Patrolling"]
    /\ pc' = "Generating"
    /\ UNCHANGED <<at, num_heroes, num_areas, crime_events, prioritized_crimes, idx,
                   successes, failures, unhandled, best_hero, returned, trace, call, ret, store_vars, arkham_vars, gotham_vars>>

\* variant: the first incident outside the patrol areas is taken, whatever its priority
Generate_first_outside ==
    /\ pc = "Generating"
    /\ crime_events' \in default_batches
    /\ \E reallocate \in BOOLEAN :
          LET events == crime_events'
              unpatrolled_crimes ==
                  SelectSeq(events, LAMBDA c : c.location \notin patrol_areas)
              fires == unpatrolled_crimes # <<>> /\ reallocate
              highest_priority == unpatrolled_crimes[1]
              lines == <<"REPORTED CRIMES">> \o [i \in 1..Len(events) |-> "Crime"]
                       \o (IF unpatrolled_crimes # <<>> THEN <<"WARNING">> ELSE <<>>)
                       \o (IF fires THEN <<"High-priority situation", "Reallocating">> ELSE <<>>)
          IN  /\ patrol_areas' = IF fires
                                 THEN patrol_areas \cup {highest_priority.location}
                                 ELSE patrol_areas
              /\ IF fires /\ Len(available_heroes) = 0
                 THEN /\ log' = log \o lines \o <<"RESOURCE ERROR", "Requesting backup">>
                      /\ returned' = <<FALSE>>
                      /\ pc' = "Aborted"
                 ELSE /\ log' = log \o lines
                      /\ returned' = returned
                      /\ pc' = "Prioritizing"
    /\ UNCHANGED <<at, num_heroes, num_areas, selected_heroes, available_heroes,
                   prioritized_crimes, idx, successes, failures, unhandled, best_hero,
                   trace, call, ret, store_vars, arkham_vars, gotham_vars>>

\* lines 273-295: the incidents are generated and the reallocation is decided;
\* reallocate stands for random.random() < 0.7
Generate ==
    /\ pc = "Generating"
    /\ crime_events' \in default_batches
    /\ \E reallocate \in BOOLEAN :
          LET events == crime_events'
              unpatrolled_crimes ==
                  SelectSeq(events, LAMBDA c : c.location \notin patrol_areas)
              fires == unpatrolled_crimes # <<>> /\ reallocate
              highest_priority == prioritize_crimes(unpatrolled_crimes)[1]
              lines == <<"REPORTED CRIMES">> \o [i \in 1..Len(events) |-> "Crime"]
                       \o (IF unpatrolled_crimes # <<>> THEN <<"WARNING">> ELSE <<>>)
                       \o (IF fires THEN <<"High-priority situation", "Reallocating">> ELSE <<>>)
          IN  /\ patrol_areas' = IF fires
                                 THEN patrol_areas \cup {highest_priority.location}
                                 ELSE patrol_areas
              /\ IF fires /\ Len(available_heroes) = 0
                 THEN /\ log' = log \o lines \o <<"RESOURCE ERROR", "Requesting backup">>
                      /\ returned' = <<FALSE>>
                      /\ pc' = "Aborted"
                 ELSE /\ log' = log \o lines
                      /\ returned' = returned
                      /\ pc' = "Prioritizing"
    /\ UNCHANGED <<at, num_heroes, num_areas, selected_heroes, available_heroes,
                   prioritized_crimes, idx, successes, failures, unhandled, best_hero,
                   trace, call, ret, store_vars, arkham_vars, gotham_vars>>

\* lines 298-305
Prioritize ==
    /\ pc = "Prioritizing"
    /\ prioritized_crimes' = sort_order(crime_events)
    /\ idx' = 1
    /\ successes' = 0
    /\ failures' = 0
    /\ unhandled' = 0
    /\ log' = Append(log, "BEGINNING PATROL OPERATIONS")
    /\ pc' = "Dispatching"
    /\ UNCHANGED <<at, num_heroes, num_areas, selected_heroes, available_heroes,
                   patrol_areas, crime_events, best_hero, returned, trace, call, ret, store_vars, arkham_vars, gotham_vars>>

\* the incident the for-loop is at
crime_ref == prioritized_crimes[idx]
crime == crime_events[crime_ref]

in_loop == pc = "Dispatching" /\ idx <= Len(prioritized_crimes)

\* variant: an incident outside the patrol areas is marked but not counted
MarkOutside_uncounted ==
    /\ in_loop /\ at = "head"
    /\ crime.location \notin patrol_areas
    /\ log' = Append(log, "outside patrol areas")
    /\ unhandled' = unhandled
    /\ crime_events' = [crime_events EXCEPT ![crime_ref].status = "Outside Patrol"]
    /\ trace' = Append(trace, Did("mark", crime_ref, "None"))
    /\ idx' = idx + 1
    /\ UNCHANGED <<pc, at, num_heroes, num_areas, selected_heroes, available_heroes,
                   patrol_areas, prioritized_crimes, successes, failures, best_hero,
                   returned, call, ret, store_vars, arkham_vars, gotham_vars>>

\* lines 339-342: the incident is outside the patrol areas
MarkOutside ==
    /\ in_loop /\ at = "head"
    /\ crime.location \notin patrol_areas
    /\ log' = Append(log, "outside patrol areas")
    /\ unhandled' = unhandled + 1
    /\ crime_events' = [crime_events EXCEPT ![crime_ref].status = "Outside Patrol"]
    /\ trace' = Append(trace, Did("mark", crime_ref, "None"))
    /\ idx' = idx + 1
    /\ UNCHANGED <<pc, at, num_heroes, num_areas, selected_heroes, available_heroes,
                   patrol_areas, prioritized_crimes, successes, failures, best_hero,
                   returned, call, ret, store_vars, arkham_vars, gotham_vars>>

\* variant: the check of the patrol areas is missing
Engage_anywhere ==
    /\ in_loop /\ at = "head"
    /\ LET found == match_hero_to_crime(available_heroes, crime)
       IN  /\ found # NoHero
           /\ best_hero' = found
           /\ available_heroes' = SelectSeq(available_heroes, LAMBDA h : h.name # found.name)
           /\ log' = log \o match_hero_log(available_heroes, crime, TRUE)
           /\ trace' = trace \o <<Did("match", crime_ref, found.name),
                                  Did("remove", crime_ref, found.name)>>
           /\ at' = "dispatch"
    /\ UNCHANGED <<pc, num_heroes, num_areas, selected_heroes, patrol_areas, crime_events,
                   prioritized_crimes, idx, successes, failures, unhandled, returned,
                   call, ret, store_vars, arkham_vars, gotham_vars>>

\* variant: engaging one responder empties the pool
Engage_takes_all ==
    /\ in_loop /\ at = "head"
    /\ crime.location \in patrol_areas
    /\ LET found == match_hero_to_crime(available_heroes, crime)
           matched == Did("match", crime_ref, found.name)
       IN  IF found # NoHero
           THEN /\ best_hero' = found
                /\ available_heroes' = <<>>
                /\ log' = log \o match_hero_log(available_heroes, crime, TRUE)
                /\ trace' = trace \o <<matched, Did("remove", crime_ref, found.name)>>
                /\ at' = "dispatch"
                /\ UNCHANGED <<unhandled, crime_events, idx>>
           ELSE /\ log' = log \o match_hero_log(available_heroes, crime, TRUE)
                               \o <<"No heroes available to handle">>
                /\ unhandled' = unhandled + 1
                /\ crime_events' = [crime_events EXCEPT ![crime_ref].status = "Unhandled"]
                /\ trace' = trace \o <<matched, Did("mark", crime_ref, "None")>>
                /\ idx' = idx + 1
                /\ UNCHANGED <<best_hero, available_heroes, at>>
    /\ UNCHANGED <<pc, num_heroes, num_areas, selected_heroes, patrol_areas,
                   prioritized_crimes, successes, failures, returned, call, ret, store_vars, arkham_vars, gotham_vars>>

\* lines 312-318 and 335-338: a responder is matched and taken out of the pool,
\* or nobody is available
Engage ==
    /\ in_loop /\ at = "head"
    /\ crime.location \in patrol_areas
    /\ LET found == match_hero_to_crime(available_heroes, crime)
           matched == Did("match", crime_ref, found.name)
       IN  IF found # NoHero
           THEN /\ best_hero' = found
                /\ available_heroes' = SelectSeq(available_heroes,
                                                 LAMBDA h : h.name # found.name)
                /\ log' = log \o match_hero_log(available_heroes, crime, TRUE)
                /\ trace' = trace \o <<matched, Did("remove", crime_ref, found.name)>>
                /\ at' = "dispatch"
                /\ UNCHANGED <<unhandled, crime_events, idx>>
           ELSE /\ log' = log \o match_hero_log(available_heroes, crime, TRUE)
                               \o <<"No heroes available to handle">>
                /\ unhandled' = unhandled + 1
                /\ crime_events' = [crime_events EXCEPT ![crime_ref].status = "Unhandled"]
                /\ trace' = trace \o <<matched, Did("mark", crime_ref, "None")>>
                /\ idx' = idx + 1
                /\ UNCHANGED <<best_hero, available_heroes, at>>
    /\ UNCHANGED <<pc, num_heroes, num_areas, selected_heroes, patrol_areas,
                   prioritized_crimes, successes, failures, returned, call, ret, store_vars, arkham_vars, gotham_vars>>

\* lines 321-329: dispatch_hero rolls and the incident gets its status
Resolve ==
    /\ in_loop /\ at = "dispatch"
    /\ \E success \in {dispatch_hero(best_hero, crime, roll).success : roll \in 1..100} :
          /\ successes' = IF success THEN successes + 1 ELSE successes
          /\ failures' = IF success THEN failures ELSE failures + 1
          /\ crime_events' = [crime_events EXCEPT ![crime_ref].status =
                                 IF success THEN "Resolved" ELSE "Failed"]
    /\ log' = log \o dispatch_hero_log(best_hero, crime, TRUE)
    /\ trace' = trace \o <<Did("roll", crime_ref, best_hero.name),
                           Did("mark", crime_ref, best_hero.name)>>
    /\ at' = "return"
    /\ UNCHANGED <<pc, num_heroes, num_areas, selected_heroes, available_heroes,
                   patrol_areas, prioritized_crimes, idx, unhandled, best_hero,
                   returned, call, ret, store_vars, arkham_vars, gotham_vars>>

\* variant: the responder is not put back
Return_lost ==
    /\ in_loop /\ at = "return"
    /\ log' = Append(log, "is available for patrol again")
    /\ trace' = Append(trace, Did("return", crime_ref, best_hero.name))
    /\ idx' = idx + 1
    /\ at' = "head"
    /\ UNCHANGED <<pc, num_heroes, num_areas, selected_heroes, available_heroes,
                   patrol_areas, crime_events, prioritized_crimes, successes, failures,
                   unhandled, best_hero, returned, call, ret, store_vars, arkham_vars, gotham_vars>>

\* variant: the loop stays at the same incident
Return_again ==
    /\ in_loop /\ at = "return"
    /\ available_heroes' = Append(available_heroes, best_hero)
    /\ log' = Append(log, "is available for patrol again")
    /\ trace' = Append(trace, Did("return", crime_ref, best_hero.name))
    /\ at' = "head"
    /\ UNCHANGED <<pc, num_heroes, num_areas, selected_heroes, patrol_areas,
                   crime_events, prioritized_crimes, idx, successes, failures, unhandled,
                   best_hero, returned, call, ret, store_vars, arkham_vars, gotham_vars>>

\* lines 332-334: the responder is back in the pool
Return ==
    /\ in_loop /\ at = "return"
    /\ available_heroes' = Append(available_heroes, best_hero)
    /\ log' = Append(log, "is available for patrol again")
    /\ trace' = Append(trace, Did("return", crime_ref, best_hero.name))
    /\ idx' = idx + 1
    /\ at' = "head"
    /\ UNCHANGED <<pc, num_heroes, num_areas, selected_heroes, patrol_areas,
                   crime_events, prioritized_crimes, successes, failures, unhandled,
                   best_hero, returned, call, ret, store_vars, arkham_vars, gotham_vars>>

\* EndDispatch that starts the batch over instead of summarizing
EndDispatch_restart ==
    /\ pc = "Dispatching"
    /\ idx > Len(prioritized_crimes)
    /\ pc' = "Prioritizing"
    /\ UNCHANGED <<at, num_heroes, num_areas, selected_heroes, available_heroes,
                   patrol_areas, crime_events, prioritized_crimes, idx, successes,
                   failures, unhandled, best_hero, returned, log, trace, call, ret, store_vars, arkham_vars, gotham_vars>>

\* the for-loop is exhausted
EndDispatch ==
    /\ pc = "Dispatching"
    /\ idx > Len(prioritized_crimes)
    /\ pc' = "Summarizing"
    /\ UNCHANGED <<at, num_heroes, num_areas, selected_heroes, available_heroes,
                   patrol_areas, crime_events, prioritized_crimes, idx, successes,
                   failures, unhandled, best_hero, returned, log, trace, call, ret, store_vars, arkham_vars, gotham_vars>>

\* Summarize with a summary that tolerates two unhandled incidents
Summarize_lenient ==
    /\ pc = "Summarizing"
    /\ LET patrol_success == successes > failures /\ unhandled <= 2
       IN  /\ returned' = <<patrol_success>>
           /\ log' = log \o <<"PATROL SUMMARY", "stopped", "Failed attempts", "Unhandled crimes",
                              "FINAL CRIME STATUS">>
                         \o [i \in 1..Len(crime_events) |-> "Status"]
                         \o <<IF patrol_success THEN "SUCCESSFUL" ELSE "PROBLEMATIC",
                              "PATROL COMPLETE">>
    /\ pc' = "Done"
    /\ UNCHANGED <<at, num_heroes, num_areas, selected_heroes, available_heroes,
                   patrol_areas, crime_events, prioritized_crimes, idx, successes,
                   failures, unhandled, best_hero, trace, call, ret, store_vars, arkham_vars, gotham_vars>>

\* lines 344-361
Summarize ==
    /\ pc = "Summarizing"
    /\ LET patrol_success == successes > failures /\ unhandled <= 1
       IN  /\ returned' = <<patrol_success>>
           /\ log' = log \o <<"PATROL SUMMARY", "stopped", "Failed attempts", "Unhandled crimes",
                              "FINAL CRIME STATUS">>
                         \o [i \in 1..Len(crime_events) |-> "Status"]
                         \o <<IF patrol_success THEN "SUCCESSFUL" ELSE "PROBLEMATIC",
                              "PATROL COMPLETE">>
    /\ pc' = "Done"
    /\ UNCHANGED <<at, num_heroes, num_areas, selected_heroes, available_heroes,
                   patrol_areas, crime_events, prioritized_crimes, idx, successes,
                   failures, unhandled, best_hero, trace, call, ret, store_vars, arkham_vars, gotham_vars>>

Next ==
    \/ ConfigureAbort
    \/ ConfigureOk
    \/ Generate
    \/ Prioritize
    \/ MarkOutside
    \/ Engage
    \/ Resolve
    \/ Return
    \/ EndDispatch
    \/ Summarize

Spec == Init /\ [][Next]_vars

\* run_patrol is one synchronous call on one thread: while a statement is
\* left to execute, the interpreter executes it.
FairSpec == Spec /\ WF_vars(Next)

(***************************************************************************)
(* Direct calls of the components, one specification per component: the    *)
(* arguments are drawn in the initial state, the call is one action.       *)
(***************************************************************************)
idle == pc = "Idle" /\ run_idle /\ store_idle /\ arkham_idle /\ gotham_idle

unchanged_run == UNCHANGED <<run_vars, store_vars, arkham_vars, gotham_vars>>

\* dispatch_hero(hero, crime, log_file)
ResolveHeroes ==
    [name : {"Batman", "Robin"}, specialty : {"Combat", "Hacking"},
     effectiveness : 1..MaxEffectiveness]

ResolveCrimes ==
    [type : {"Robbery", "Unlisted"}, location : {GOTHAM_AREAS[1]},
     severity : 1..MaxSeverity, status : {"Active"}]

InitResolve ==
    /\ idle
    /\ call \in [fn : {"dispatch_hero"}, hero : ResolveHeroes, crime : ResolveCrimes,
                 log_file : BOOLEAN]
    /\ ret = <<>>

CallDispatchHero ==
    /\ call.fn = "dispatch_hero"
    /\ ret = <<>>
    /\ \E roll \in 1..100 : ret' = <<dispatch_hero(call.hero, call.crime, roll)>>
    /\ log' = log \o dispatch_hero_log(call.hero, call.crime, call.log_file)
    /\ UNCHANGED call
    /\ unchanged_run

NextResolve == CallDispatchHero

SpecResolve == InitResolve /\ [][NextResolve]_vars

\* match_hero_to_crime(available_heroes, crime, log_file)
MatchHeroes ==
    Range(BAT_FAMILY) \cup {[name |-> "Alfred", specialty |-> "Hacking", effectiveness |-> 1]}

RECURSIVE SeqsUpTo(_, _)
SeqsUpTo(S, n) ==
    IF n = 0 THEN {<<>>}
    ELSE SeqsUpTo(S, n - 1)
         \cup {Append(q, x) : q \in {r \in SeqsUpTo(S, n - 1) : Len(r) = n - 1}, x \in S}

MatchCrimes ==
    [type : Range(CRIME_TYPES) \cup {"Unlisted"}, location : {GOTHAM_AREAS[1]},
     severity : {5}, status : {"Active"}]

InitMatch ==
    /\ idle
    /\ call \in [fn : {"match_hero_to_crime"}, heroes : SeqsUpTo(MatchHeroes, MaxPool),
                 crime : MatchCrimes, log_file : BOOLEAN]
    /\ ret = <<>>

CallMatchHero ==
    /\ call.fn = "match_hero_to_crime"
    /\ ret = <<>>
    /\ ret' = <<match_hero_to_crime(call.heroes, call.crime)>>
    /\ log' = log \o match_hero_log(call.heroes, call.crime, call.log_file)
    /\ UNCHANGED call
    /\ unchanged_run

NextMatch == CallMatchHero

SpecMatch == InitMatch /\ [][NextMatch]_vars

\* prioritize_crimes(crimes)
SortCrimes ==
    [type : Range(CRIME_TYPES) \cup {"Unlisted"}, location : {GOTHAM_AREAS[1]},
     severity : 3..(2 + SortSevs), status : {"Active"}]

InitSort ==
    /\ idle
    /\ call \in [fn : {"prioritize_crimes"}, crimes : SeqsUpTo(SortCrimes, MaxSortLen)]
    /\ ret = <<>>

\* variant: the list given is sorted in place and returned
CallPrioritize_in_place ==
    /\ call.fn = "prioritize_crimes"
    /\ ret = <<>>
    /\ ret' = <<prioritize_crimes(call.crimes)>>
    /\ call' = [call EXCEPT !.crimes = prioritize_crimes(call.crimes)]
    /\ UNCHANGED log
    /\ unchanged_run

CallPrioritize ==
    /\ call.fn = "prioritize_crimes"
    /\ ret = <<>>
    /\ ret' = <<prioritize_crimes(call.crimes)>>
    /\ UNCHANGED <<call, log>>
    /\ unchanged_run

NextSort == CallPrioritize

SpecSort == InitSort /\ [][NextSort]_vars

\* generate_crime_events(num_events)
InitGen ==
    /\ idle
    /\ call \in [fn : {"generate_crime_events"}, num_events : 0..MaxGenEvents]
    /\ ret = <<>>

CallGenerate ==
    /\ call.fn = "generate_crime_events"
    /\ ret = <<>>
    /\ \E draws \in [1..call.num_events -> Draws] :
          ret' = <<generate_crime_events(call.num_events, draws)>>
    /\ UNCHANGED <<call, log>>
    /\ unchanged_run

NextGen == CallGenerate

SpecGen == InitGen /\ [][NextGen]_vars

\* prioritize_crimes(crimes) on incidents with equal keys that the location
\* tells apart
StableCrimes ==
    [type : Choice(CRIME_TYPES, StableTypes), location : Choice(GOTHAM_AREAS, StableAreas),
     severity : 3..(2 + SortSevs), status : {"Active"}]

InitStable ==
    /\ idle
    /\ call \in [fn : {"prioritize_crimes"}, crimes : SeqsUpTo(StableCrimes, MaxSortLen)]
    /\ ret = <<>>

NextStable == CallPrioritize

SpecStable == InitStable /\ [][NextStable]_vars

\* a call of either component that is handed the run's lists: the incident
\* list for prioritize_crimes, the pool and one incident for match_hero_to_crime
InitFrame == InitSort \/ InitMatch

NextFrame ==
    \/ CallPrioritize
    \/ CallMatchHero

SpecFrame == InitFrame /\ [][NextFrame]_vars

\* generate_crime_events with every crime type and every severity of both
\* ranges: the offsets 0..5 give each value of randint(3, 8) and of
\* randint(7, 10)
SevDraws == [type : Range(CRIME_TYPES), area : 1..SevAreaWidth, sev : 0..(8 - 3)]

InitGenSev ==
    /\ idle
    /\ call \in [fn : {"generate_crime_events"}, num_events : 0..MaxSevEvents]
    /\ ret = <<>>

CallGenerateSev ==
    /\ call.fn = "generate_crime_events"
    /\ ret = <<>>
    /\ \E draws \in [1..call.num_events -> SevDraws] :
          ret' = <<generate_crime_events(call.num_events, draws)>>
    /\ UNCHANGED <<call, log>>
    /\ unchanged_run

NextGenSev == CallGenerateSev

SpecGenSev == InitGenSev /\ [][NextGenSev]_vars

\* generate_crime_events asked for up to more incidents than there are
\* locations; the type and the severity drawn play no part in how many
\* incidents are built, so one of each is followed
ManyDraws == [type : {CRIME_TYPES[1]}, area : 1..ManyAreaWidth, sev : {0}]

InitGenMany ==
    /\ idle
    /\ call \in [fn : {"generate_crime_events"}, num_events : 0..MaxManyEvents]
    /\ ret = <<>>

CallGenerateMany ==
    /\ call.fn = "generate_crime_events"
    /\ ret = <<>>
    /\ \E draws \in [1..call.num_events -> ManyDraws] :
          ret' = <<generate_crime_events(call.num_events, draws)>>
    /\ UNCHANGED <<call, log>>
    /\ unchanged_run

NextGenMany == CallGenerateMany

SpecGenMany == InitGenMany /\ [][NextGenMany]_vars

\* the pool through the iterations of the dispatch loop, for any team sampled
\* from the roster and any incident type in the patrol set: lines 314, 318
\* and 334 (the roll and the status of lines 321-329 do not touch the pool).
\* call.heroes is the pool, call.crime the incident of the coming iteration,
\* ret the responder selected in the last one.
InitPool ==
    /\ idle
    /\ call \in [fn : {"dispatch_loop"},
                 heroes : UNION {Sample(BAT_FAMILY, k, Len(BAT_FAMILY)) : k \in 1..MaxTeam},
                 crime : MatchCrimes]
    /\ ret = <<>>

PoolIteration ==
    /\ call.fn = "dispatch_loop"
    /\ \E next_crime \in MatchCrimes :
          LET found == match_hero_to_crime(call.heroes, call.crime)
              others == SelectSeq(call.heroes, LAMBDA h : h.name # found.name)
          IN  /\ ret' = <<found>>
              /\ call' = [call EXCEPT !.heroes = Append(others, found), !.crime = next_crime]
    /\ UNCHANGED log
    /\ unchanged_run

NextPool == PoolIteration

SpecPool == InitPool /\ [][NextPool]_vars

(***************************************************************************)
(* The criminal store of the Batcomputer API                               *)
(* (gotham_fastapi/lesson_5/solution.py): each request handler is one      *)
(* action on the module-level list criminals_db.                           *)
(***************************************************************************)
\* the bodies of the requests followed (CriminalCreate)
CriminalBodies == [name : {"Bane"}]

NoCriminal == [id |-> 0, name |-> "None", crimes |-> <<>>]

\* what a request answered, with the request it answers: the handler, the id
\* in the path (0 when the path has none), the status code, the record returned
Response(op, criminal_id, status, criminal) ==
    [op |-> op, asked |-> criminal_id, status |-> status, criminal |-> criminal]

\* positions of the records with this id
positions_of(db, criminal_id) == {i \in DOMAIN db : db[i].id = criminal_id}

\* the first position the for-loop finds
first_position(db, criminal_id) ==
    CHOOSE i \in positions_of(db, criminal_id) : \A j \in positions_of(db, criminal_id) : i <= j

\* max(c["id"] for c in criminals_db), defined on a store that is not empty
max_id(db) == CHOOSE m \in {db[i].id : i \in DOMAIN db} : \A i \in DOMAIN db : db[i].id <= m

InitStore ==
    /\ idle
    /\ no_call

\* GET /criminals/{criminal_id}
GetCriminal ==
    /\ \E criminal_id \in 1..MaxCriminalId :
          response' =
              IF positions_of(criminals_db, criminal_id) # {}
              THEN <<Response("get", criminal_id, 200, criminals_db[first_position(criminals_db, criminal_id)])>>
              ELSE <<Response("get", criminal_id, 404, NoCriminal)>>
    /\ UNCHANGED <<criminals_db, run_vars, log, call, ret, arkham_vars, gotham_vars>>

\* POST /criminals/: max() of an empty sequence raises ValueError, which no
\* handler catches, so the request fails with status 500 and nothing is stored
CreateCriminal ==
    /\ \E criminal \in CriminalBodies :
          IF criminals_db = <<>>
          THEN /\ response' = <<Response("create", 0, 500, NoCriminal)>>
               /\ UNCHANGED criminals_db
          ELSE LET new_id == max_id(criminals_db) + 1
                   new_criminal == [id |-> new_id, name |-> criminal.name, crimes |-> <<>>]
               IN  /\ new_id <= MaxCriminalId
                   /\ criminals_db' = Append(criminals_db, new_criminal)
                   /\ response' = <<Response("create", 0, 201, new_criminal)>>
    /\ UNCHANGED <<run_vars, log, call, ret, arkham_vars, gotham_vars>>

\* variant: the crimes on record are not carried over
UpdateCriminal_drops_crimes ==
    /\ \E criminal_id \in 1..MaxCriminalId, criminal \in CriminalBodies :
          IF positions_of(criminals_db, criminal_id) # {}
          THEN LET i == first_position(criminals_db, criminal_id)
                   updated_criminal == [id |-> criminal_id, name |-> criminal.name,
                                        crimes |-> <<>>]
               IN  /\ criminals_db' = [criminals_db EXCEPT ![i] = updated_criminal]
                   /\ response' = <<Response("update", criminal_id, 200, updated_criminal)>>
          ELSE /\ response' = <<Response("update", criminal_id, 404, NoCriminal)>>
               /\ UNCHANGED criminals_db
    /\ UNCHANGED <<run_vars, log, call, ret, arkham_vars, gotham_vars>>

\* PUT /criminals/{criminal_id}
UpdateCriminal ==
    /\ \E criminal_id \in 1..MaxCriminalId, criminal \in CriminalBodies :
          IF positions_of(criminals_db, criminal_id) # {}
          THEN LET i == first_position(criminals_db, criminal_id)
                   updated_criminal == [id |-> criminal_id, name |-> criminal.name,
                                        crimes |-> criminals_db[i].crimes]
               IN  /\ criminals_db' = [criminals_db EXCEPT ![i] = updated_criminal]
                   /\ response' = <<Response("update", criminal_id, 200, updated_criminal)>>
          ELSE /\ response' = <<Response("update", criminal_id, 404, NoCriminal)>>
               /\ UNCHANGED criminals_db
    /\ UNCHANGED <<run_vars, log, call, ret, arkham_vars, gotham_vars>>

\* DELETE /criminals/{criminal_id}
DeleteCriminal ==
    /\ \E criminal_id \in 1..MaxCriminalId :
          IF positions_of(criminals_db, criminal_id) # {}
          THEN LET i == first_position(criminals_db, criminal_id)
               IN  /\ criminals_db' = RemoveAt(criminals_db, i)
                   /\ response' = <<Response("delete", criminal_id, 200, criminals_db[i])>>
          ELSE /\ response' = <<Response("delete", criminal_id, 404, NoCriminal)>>
               /\ UNCHANGED criminals_db
    /\ UNCHANGED <<run_vars, log, call, ret, arkham_vars, gotham_vars>>

NextStore ==
    \/ GetCriminal
    \/ CreateCriminal
    \/ UpdateCriminal
    \/ DeleteCriminal

SpecStore == InitStore /\ [][NextStore]_vars

(***************************************************************************)
(* The Arkham Asylum API (gotham_fastapi/lesson_7/solution.py): each       *)
(* request handler is one action on the module-level stores inmates_db,    *)
(* incidents_db and treatment_records_db; staff_db and treatments_db are   *)
(* only read by the handlers followed.                                     *)
(***************************************************************************)
\* the bodies of POST /inmates/ followed (InmateCreate)
InmateBodies == [danger_level : {3, 9}, cell_block : {"D"}, is_active : BOOLEAN]

NoInmate == [id |-> 0, name |-> "None", danger_level |-> 0, cell_block |-> "None",
             is_active |-> FALSE]

\* the dict create_inmate stores for a body
new_inmate_of(new_id, inmate) ==
    [id |-> new_id, name |-> "Bane", danger_level |-> inmate.danger_level,
     cell_block |-> inmate.cell_block, is_active |-> inmate.is_active]

\* max(x["id"] for x in db) + 1 if db else 1
next_id(db) == IF db # <<>> THEN max_id(db) + 1 ELSE 1

\* any(x["id"] == wanted for x in db)
has_id(db, wanted) == \E i \in DOMAIN db : db[i].id = wanted

InitArkham ==
    /\ idle
    /\ no_call

\* POST /inmates/
CreateInmate ==
    /\ Len(ids_issued) < MaxIssued
    /\ \E inmate \in InmateBodies :
          LET new_id == next_id(inmates_db)
              inmate_dict == new_inmate_of(new_id, inmate)
          IN  /\ inmate.is_active
              /\ inmates_db' = Append(inmates_db, inmate_dict)
              /\ ids_issued' = Append(ids_issued, new_id)
              /\ response' = <<Response("create_inmate", 0, 201, inmate_dict)>>
    /\ UNCHANGED <<incidents_db, treatment_records_db, criminals_db>>
    /\ UNCHANGED <<run_vars, log, call, ret, gotham_vars>>

\* DELETE /inmates/{inmate_id}: only inmates_db is touched
DeleteInmate ==
    /\ \E inmate_id \in 1..MaxInmateId :
          IF has_id(inmates_db, inmate_id)
          THEN LET i == first_position(inmates_db, inmate_id)
               IN  /\ inmates_db' = RemoveAt(inmates_db, i)
                   /\ response' = <<Response("delete_inmate", inmate_id, 204, NoInmate)>>
          ELSE /\ response' = <<Response("delete_inmate", inmate_id, 404, NoInmate)>>
               /\ UNCHANGED inmates_db
    /\ UNCHANGED <<incidents_db, treatment_records_db, ids_issued, criminals_db>>
    /\ UNCHANGED <<run_vars, log, call, ret, gotham_vars>>

\* POST /incidents/
CreateIncident ==
    /\ \E inmate_id \in 1..MaxInmateId, staff_involved \in StaffLists :
          IF ~has_id(inmates_db, inmate_id)
          THEN /\ response' = <<Response("create_incident", inmate_id, 404, NoInmate)>>
               /\ UNCHANGED incidents_db
          ELSE IF \E staff_id \in staff_involved : ~has_id(staff_db, staff_id)
          THEN /\ response' = <<Response("create_incident", inmate_id, 404, NoInmate)>>
               /\ UNCHANGED incidents_db
          ELSE LET incident_dict == [id |-> next_id(incidents_db), inmate_id |-> inmate_id,
                                     staff_involved |-> staff_involved]
               IN  /\ Len(incidents_db) < MaxIncidents
                   /\ incidents_db' = Append(incidents_db, incident_dict)
                   /\ response' = <<Response("create_incident", inmate_id, 201, incident_dict)>>
    /\ UNCHANGED <<inmates_db, treatment_records_db, ids_issued, criminals_db>>
    /\ UNCHANGED <<run_vars, log, call, ret, gotham_vars>>

\* POST /inmates/{inmate_id}/treatments/
AssignTreatment ==
    /\ \E inmate_id \in 1..MaxInmateId, treatment_id \in 1..MaxTreatmentId :
          IF ~has_id(inmates_db, inmate_id)
          THEN /\ response' = <<Response("assign_treatment", inmate_id, 404, NoInmate)>>
               /\ UNCHANGED treatment_records_db
          ELSE IF ~has_id(treatments_db, treatment_id)
          THEN /\ response' = <<Response("assign_treatment", inmate_id, 404, NoInmate)>>
               /\ UNCHANGED treatment_records_db
          ELSE LET record_dict == [id |-> next_id(treatment_records_db),
                                   treatment_id |-> treatment_id, inmate_id |-> inmate_id]
               IN  /\ Len(treatment_records_db) < MaxRecords
                   /\ treatment_records_db' = Append(treatment_records_db, record_dict)
                   /\ response' = <<Response("assign_treatment", inmate_id, 201, record_dict)>>
    /\ UNCHANGED <<inmates_db, incidents_db, ids_issued, criminals_db>>
    /\ UNCHANGED <<run_vars, log, call, ret, gotham_vars>>

NextArkham ==
    \/ CreateInmate
    \/ DeleteInmate
    \/ CreateIncident
    \/ AssignTreatment

SpecArkham == InitArkham /\ [][NextArkham]_vars

(***************************************************************************)
(* GET /inmates/ (list_inmates) called once on a store that a sequence of  *)
(* create_inmate requests has filled.                                      *)
(***************************************************************************)
\* an Optional query parameter: <<>> for None, <<v>> for a value
Optional(values) == {<<>>} \cup {<<v>> : v \in values}

\* the four filters, applied one after the other
filter_inmates(db, active, min_danger, max_danger, cell_block) ==
    LET by_active == IF active # <<>>
                     THEN SelectSeq(db, LAMBDA i : i.is_active = active[1]) ELSE db
        by_min == IF min_danger # <<>>
                  THEN SelectSeq(by_active, LAMBDA i : i.danger_level >= min_danger[1])
                  ELSE by_active
        by_max == IF max_danger # <<>>
                  THEN SelectSeq(by_min, LAMBDA i : i.danger_level <= max_danger[1])
                  ELSE by_min
    IN  IF cell_block # <<>>
        THEN SelectSeq(by_max, LAMBDA i : i.cell_block = cell_block[1]) ELSE by_max

\* variant: pages are numbered from 0
page_slice_from_zero(results, page, size) ==
    LET start == page * size
        end == start + size
    IN  SubSeq(results, start + 1, Min(end, Len(results)))

\* results[start:end] with start = (page - 1) * size and end = start + size:
\* the slice is clipped to the list and empty when start is past its end
page_slice(results, page, size) ==
    LET start == (page - 1) * size
        end == start + size
    IN  SubSeq(results, start + 1, Min(end, Len(results)))

list_inmates(db, active, min_danger, max_danger, cell_block, page, size) ==
    LET results == filter_inmates(db, active, min_danger, max_danger, cell_block)
        total == Len(results)
    IN  [items |-> page_slice(results, page, size), total |-> total, page |-> page,
         size |-> size, pages |-> (total + size - 1) \div size]

\* inmates_db after up to MaxAdmitted create_inmate requests on the sample data
RECURSIVE admitted(_, _)
admitted(db, bodies) ==
    IF bodies = <<>> THEN db
    ELSE admitted(Append(db, new_inmate_of(next_id(db), Head(bodies))), Tail(bodies))

ListStores ==
    {admitted(inmates_db_sample, bodies) :
        bodies \in UNION {[1..n -> InmateBodies] : n \in 0..MaxAdmitted}}

InitList ==
    /\ pc = "Idle" /\ run_idle /\ store_idle /\ gotham_idle
    /\ inmates_db \in ListStores
    /\ ids_issued = [i \in DOMAIN inmates_db |-> inmates_db[i].id]
    /\ incidents_db = incidents_db_sample
    /\ treatment_records_db = treatment_records_db_sample
    /\ call \in [fn : {"list_inmates"}, active : Optional({TRUE}),
                 min_danger : Optional({8}), max_danger : Optional({8}),
                 cell_block : Optional({"D"}), page : 1..MaxPage, size : 1..MaxSize]
    /\ ret = <<>>

CallListInmates ==
    /\ call.fn = "list_inmates"
    /\ ret = <<>>
    /\ ret' = <<list_inmates(inmates_db, call.active, call.min_danger, call.max_danger,
                             call.cell_block, call.page, call.size)>>
    /\ UNCHANGED <<call, log>>
    /\ unchanged_run

NextList == CallListInmates

SpecList == InitList /\ [][NextList]_vars

(***************************************************************************)
(* The Gotham Protectors System (gotham_fastapi/lesson_4/solution.py):     *)
(* Hero.fight (with the Hero.capture it calls) and Villain.escape are one  *)
(* action each on the fields of the characters; ret holds what the last    *)
(* method call returned.                                                   *)
(***************************************************************************)
\* Character.abilities and Villain.weaknesses as the constructors set them
abilities(name) ==
    IF name = "Batman"
    THEN {"Detective Skills", "Martial Arts", "Intimidation", "Stealth", "Combat"}
    ELSE IF name = "Robin"
    THEN {"Acrobatics", "Bo Staff", "Combat", "Computer Skills"}
    ELSE {"Chemical Expertise", "Psychological Manipulation", "Improvised Weapons"}

weaknesses(name) == IF name = "Joker" THEN {"Detective Skills", "Intimidation"} ELSE {}

\* the success chance Hero.fight computes
fight_success_chance(hero, villain) ==
    IF abilities(hero) \cap weaknesses(villain) # {} THEN 70 + 20 ELSE 70

\* what a method call returned, with the call it answers
Returned(op, hero, villain, message) ==
    [op |-> op, hero |-> hero, villain |-> villain, message |-> message]

InitGotham ==
    /\ idle
    /\ no_call

\* hero.fight(villain); a won fight that brings the villain down calls
\* self.capture(villain), which does nothing for a villain already in
\* self.villains_captured
Fight ==
    /\ \E hero \in Heroes, villain \in Villains :
       \E won \in {roll <= fight_success_chance(hero, villain) : roll \in 1..100} :
          IF won
          THEN LET left == health[villain] - 30
               IN  /\ left >= 100 - 30 * MaxBlows
                   /\ health' = [health EXCEPT ![villain] = left]
                   /\ IF left <= 0
                      THEN IF villain \notin Range(villains_captured[hero]) /\ left <= 0
                           THEN /\ is_captured' = [is_captured EXCEPT ![villain] = TRUE]
                                /\ villains_captured' =
                                      [villains_captured EXCEPT
                                          ![hero] = Append(villains_captured[hero], villain)]
                                /\ ret' = <<Returned("fight", hero, villain, "has captured")>>
                           ELSE /\ UNCHANGED <<is_captured, villains_captured>>
                                /\ ret' = <<Returned("fight", hero, villain,
                                             IF villain \in Range(villains_captured[hero])
                                             THEN "is already captured"
                                             ELSE "is still at large")>>
                      ELSE /\ UNCHANGED <<is_captured, villains_captured>>
                           /\ ret' = <<Returned("fight", hero, villain, "won the fight")>>
          ELSE /\ health[hero] - 20 >= 100 - 20 * MaxInjuries
               /\ health' = [health EXCEPT ![hero] = health[hero] - 20]
               /\ UNCHANGED <<is_captured, villains_captured>>
               /\ ret' = <<Returned("fight", hero, villain, "got away")>>
    /\ UNCHANGED <<run_vars, log, call, store_vars, arkham_vars>>

\* villain.escape()
Escape ==
    /\ \E villain \in Villains :
          IF is_captured[villain]
          THEN /\ is_captured' = [is_captured EXCEPT ![villain] = FALSE]
               /\ health' = [health EXCEPT ![villain] = 50]
               /\ ret' = <<Returned("escape", "None", villain, "has escaped custody")>>
          ELSE /\ UNCHANGED <<is_captured, health>>
               /\ ret' = <<Returned("escape", "None", villain, "is already free")>>
    /\ UNCHANGED villains_captured
    /\ UNCHANGED <<run_vars, log, call, store_vars, arkham_vars>>

NextGotham ==
    \/ Fight
    \/ Escape

SpecGotham == InitGotham /\ [][NextGotham]_vars

(***************************************************************************)
(* Properties                                                              *)
(***************************************************************************)
\* entries of the history about incident i with one of the given operations
Entries(i, ops) == {k \in DOMAIN trace : trace[k].crime = i /\ trace[k].op \in ops}

\* the priority table as the specification states it; a type not listed
\* comes after every listed type
StatedRank(crime_type) ==
    CASE crime_type = "Super-villain Activity" -> 1
      [] crime_type = "Kidnapping"             -> 2
      [] crime_type = "Assault"                -> 3
      [] crime_type = "Robbery"                -> 4
      [] crime_type = "Illegal Weapons"        -> 5
      [] crime_type = "Drug Deal"              -> 6
      [] OTHER                                 -> 7

\* incident a comes strictly before incident b in Priority Sorter order
StrictlyBefore(a, b) ==
    \/ a.severity > b.severity
    \/ a.severity = b.severity /\ StatedRank(a.type) < StatedRank(b.type)

\* between two incidents of the loop nobody is engaged
between_incidents == pc \in {"Dispatching", "Summarizing", "Done"} /\ at = "head"

\* C1: after each incident has been processed, and so after the whole
\* Dispatching pass, the availability pool has the size it had before the
\* pass and holds the same responders.
C1_PoolRestored ==
    between_incidents =>
        /\ Len(available_heroes) = Len(selected_heroes)
        /\ Range(available_heroes) = Range(selected_heroes)

\* C1 witness: a finished run of two responders in which one was dispatched
\* and came back at the end of the pool.
C1_Witness ==
    /\ pc = "Done"
    /\ Len(selected_heroes) = 2
    /\ \E k \in DOMAIN trace : trace[k].op = "return"
    /\ available_heroes # selected_heroes

\* C2: at every point at most one responder is missing from the pool, every
\* incident is dispatched to at most one responder, and an incident that has
\* been marked is never dispatched again.
C2_OneEngagement ==
    /\ Range(available_heroes) \subseteq Range(selected_heroes)
    /\ Len(selected_heroes) - Len(available_heroes) \in {0, 1}
    /\ Cardinality(Range(available_heroes)) = Len(available_heroes)
    /\ \A i \in DOMAIN crime_events :
          /\ Cardinality(Entries(i, {"remove"})) <= 1
          /\ Cardinality(Entries(i, {"roll"})) <= 1
          /\ \A m \in Entries(i, {"mark"}) :
                \A k \in Entries(i, {"match", "remove", "roll"}) : k < m

\* C2 witness: the second dispatch of a run, one of two responders engaged.
C2_Witness ==
    /\ pc = "Dispatching" /\ at = "dispatch"
    /\ Len(selected_heroes) = 2
    /\ Len(available_heroes) = 1
    /\ \E k \in DOMAIN trace : trace[k].op = "return"

\* C3: for effectiveness and severity in 1..10 and every combination of
\* specialty match and Batman bonus, the success chance lies in 5..95; a roll
\* of 96..100 fails and a roll of 1..5 succeeds.
C3_ChanceClamped ==
    ret # <<>> =>
        /\ ret[1].chance \in 5..95
        /\ ret[1].roll >= 96 => ~ret[1].success
        /\ ret[1].roll <= 5 => ret[1].success

\* C3 witness: the unclamped value is 120, the chance is 95 and a roll of 96
\* fails.
C3_Witness ==
    /\ ret # <<>>
    /\ call.hero = [name |-> "Batman", specialty |-> "Combat", effectiveness |-> 10]
    /\ call.crime.type = "Robbery" /\ call.crime.severity = 3
    /\ ret[1].roll = 96
    /\ ~ret[1].success

\* C4: dispatch_hero reports success exactly when the roll is at most
\* clamp(effectiveness*10 + (20 if the specialty matches) - severity*5
\* + (15 for Batman), 5, 95); for effectiveness 10, a match, Batman and
\* severity 3 the chance is 95.
C4_SuccessIffRoll ==
    ret # <<>> =>
        LET hero == call.hero
            raw == hero.effectiveness * 10
                   + (IF hero.specialty \in SPECIALTY_MATCHING(call.crime.type) THEN 20 ELSE 0)
                   - call.crime.severity * 5
                   + (IF hero.name = "Batman" THEN 15 ELSE 0)
            clamped == IF raw < 5 THEN 5 ELSE IF raw > 95 THEN 95 ELSE raw
        IN  /\ ret[1].success <=> (ret[1].roll <= clamped)
            /\ ( /\ hero.effectiveness = 10 /\ hero.name = "Batman"
                 /\ hero.specialty \in SPECIALTY_MATCHING(call.crime.type)
                 /\ call.crime.severity = 3 ) => ret[1].chance = 95

\* C4 witness: a roll equal to the chance succeeds, below the ceiling.
C4_Witness ==
    /\ ret # <<>>
    /\ ret[1].roll = ret[1].chance
    /\ ret[1].chance = 50
    /\ ret[1].success

\* C5: match_hero_to_crime returns None exactly when the pool is empty; for
\* a non-empty pool it returns the responder with the maximal score
\* effectiveness + (3 if the specialty matches) + (2 for Batman), the first
\* one in pool order among those with the maximal score.
C5_BestMatch ==
    ret # <<>> =>
        LET pool == call.heroes
            Score(h) == h.effectiveness
                        + (IF h.specialty \in SPECIALTY_MATCHING(call.crime.type) THEN 3 ELSE 0)
                        + (IF h.name = "Batman" THEN 2 ELSE 0)
        IN  /\ ret[1] = NoHero <=> pool = <<>>
            /\ pool # <<>> =>
                  \E k \in DOMAIN pool :
                      /\ ret[1] = pool[k]
                      /\ \A j \in DOMAIN pool : Score(pool[j]) <= Score(pool[k])
                      /\ \A j \in 1..(k - 1) : Score(pool[j]) < Score(pool[k])

\* C5 witness: two different responders tie on the maximal score and the
\* earlier one is returned.
C5_Witness ==
    /\ ret # <<>>
    /\ Len(call.heroes) = 3
    /\ call.crime.type = "Drug Deal"
    /\ call.heroes[2].name = "Nightwing"
    /\ call.heroes[3].name = "Batman"
    /\ ret[1].name = "Nightwing"

\* C6: the output of prioritize_crimes is non-increasing in severity, and
\* among equal severities ascending in type priority, a type missing from the
\* table after all listed types.
C6_SortedOutput ==
    ret # <<>> =>
        \A k \in 1..(Len(ret[1]) - 1) :
            /\ ret[1][k].severity >= ret[1][k + 1].severity
            /\ ret[1][k].severity = ret[1][k + 1].severity
                  => StatedRank(ret[1][k].type) <= StatedRank(ret[1][k + 1].type)

\* C6 witness: an input in the opposite order, with an unlisted type, comes
\* out reordered.
C6_Witness ==
    /\ ret # <<>>
    /\ Len(call.crimes) = 3
    /\ call.crimes[1].type = "Unlisted" /\ call.crimes[1].severity = 3
    /\ call.crimes[2].type = "Drug Deal" /\ call.crimes[2].severity = 3
    /\ call.crimes[3].type = "Robbery" /\ call.crimes[3].severity = 4
    /\ ret[1][1].type = "Robbery"
    /\ ret[1][3].type = "Unlisted"

\* C7: no two incidents of a batch returned by generate_crime_events share a
\* location.
C7_DistinctLocations ==
    ret # <<>> =>
        \A i, j \in DOMAIN ret[1] : i # j => ret[1][i].location # ret[1][j].location

\* C7 witness: a batch of three incidents.
C7_Witness ==
    /\ ret # <<>>
    /\ call.num_events = 3
    /\ Len(ret[1]) = 3

\* the counts of a run are outside 1..5 for responders or 1..8 for areas
InvalidCounts(heroes, areas) == heroes < 1 \/ heroes > 5 \/ areas < 1 \/ areas > 8

\* C8: a run with a responder count below 1 or above 5, or an area count
\* below 1 or above 8, goes directly to Aborted with the configuration error
\* and returns False, without selecting responders, generating incidents or
\* dispatching; every pair in 1..5 x 1..8 passes validation.
C8_ConfigurationError ==
    /\ InvalidCounts(num_heroes, num_areas) =>
          /\ pc \in {"Configuring", "Aborted"}
          /\ selected_heroes = <<>> /\ available_heroes = <<>> /\ patrol_areas = {}
          /\ crime_events = <<>> /\ trace = <<>>
          /\ pc = "Aborted" => /\ returned = <<FALSE>>
                               /\ log[Len(log)] = "CONFIGURATION ERROR"
    /\ ~InvalidCounts(num_heroes, num_areas) => "CONFIGURATION ERROR" \notin Range(log)
    /\ pc = "Configuring" =>
          \A h \in -1..7, a \in -1..10 : validate_patrol_config(h, a) <=> ~InvalidCounts(h, a)

\* C8 witness: a run asked for six responders has aborted.
C8_Witness ==
    /\ pc = "Aborted"
    /\ num_heroes = 6 /\ num_areas = 1
    /\ returned = <<FALSE>>

\* C9: an incident whose location is not in the patrol set when the loop
\* reaches it is marked Outside Patrol and counted as unhandled; no responder
\* is matched or removed for it and no roll is drawn.
C9_OutsidePatrol ==
    pc \in {"Dispatching", "Summarizing", "Done"} =>
        /\ \A i \in DOMAIN crime_events :
              (crime_events[i].location \notin patrol_areas /\ Entries(i, {"mark"}) # {}) =>
                  /\ crime_events[i].status = "Outside Patrol"
                  /\ Entries(i, {"match", "remove", "roll", "return"}) = {}
        /\ \A i \in DOMAIN crime_events :
              (crime_events[i].location \notin patrol_areas /\ Entries(i, {"mark"}) = {}) =>
                  /\ crime_events[i].status = "Active"
                  /\ Entries(i, {"match", "remove", "roll", "return"}) = {}
        /\ unhandled = Cardinality({i \in DOMAIN crime_events :
                                       crime_events[i].status \in {"Outside Patrol", "Unhandled"}})
        /\ successes + failures = Cardinality({k \in DOMAIN trace : trace[k].op = "roll"})

\* C9 witness: a finished run with one incident outside the patrol areas and
\* one resolved.
C9_Witness ==
    /\ pc = "Done"
    /\ \E i, j \in DOMAIN crime_events :
          /\ crime_events[i].status = "Outside Patrol"
          /\ crime_events[j].status = "Resolved"
    /\ unhandled >= 1

\* C10: the loop handles the incidents in Priority Sorter order: whatever is
\* done to an incident, every incident of the batch with strictly higher
\* severity, or equal severity and a strictly smaller type-priority number,
\* has been marked before.
C10_PriorityOrder ==
    \A k \in DOMAIN trace :
        \A j \in DOMAIN crime_events :
            StrictlyBefore(crime_events[j], crime_events[trace[k].crime]) =>
                \E m \in 1..(k - 1) : trace[m].op = "mark" /\ trace[m].crime = j

\* C10 witness: a finished run of three incidents whose last generated
\* incident was handled first.
C10_Witness ==
    /\ pc = "Done"
    /\ Len(crime_events) = 3
    /\ trace[1].crime = 3
    /\ StrictlyBefore(crime_events[3], crime_events[1])

\* incidents of the batch with one of the given statuses
WithStatus(statuses) == {i \in DOMAIN crime_events : crime_events[i].status \in statuses}

\* C11: a run that went through Summarizing returned True if and only if
\* more incidents were resolved than failed and at most one incident was left
\* unhandled, Outside Patrol and Unhandled incidents both counting as
\* unhandled.
C11_SuccessRule ==
    pc = "Done" =>
        /\ returned \in {<<TRUE>>, <<FALSE>>}
        /\ successes = Cardinality(WithStatus({"Resolved"}))
        /\ failures = Cardinality(WithStatus({"Failed"}))
        /\ unhandled = Cardinality(WithStatus({"Outside Patrol", "Unhandled"}))
        /\ returned[1] <=>
              /\ Cardinality(WithStatus({"Resolved"})) > Cardinality(WithStatus({"Failed"}))
              /\ Cardinality(WithStatus({"Outside Patrol", "Unhandled"})) <= 1

\* C11 witness: a finished run with more successes than failures that is
\* nevertheless reported unsuccessful, because two incidents were unhandled.
C11_Witness ==
    /\ pc = "Done"
    /\ Cardinality(WithStatus({"Resolved"})) = 1
    /\ Cardinality(WithStatus({"Failed"})) = 0
    /\ Cardinality(WithStatus({"Outside Patrol", "Unhandled"})) = 2
    /\ returned = <<FALSE>>

\* the phase changes a run may make: the next phase of the sequence, or the
\* error path out of a phase that is not final
PhaseOrder == <<"Configuring", "Generating", "Prioritizing", "Dispatching", "Summarizing", "Done">>

PhaseSteps ==
    {<<PhaseOrder[k], PhaseOrder[k + 1]>> : k \in 1..(Len(PhaseOrder) - 1)}
        \cup {<<PhaseOrder[k], "Aborted">> : k \in 1..(Len(PhaseOrder) - 1)}

\* C13: the phase of a run only ever changes to the next phase of
\* Configuring, Generating, Prioritizing, Dispatching, Summarizing, Done, or
\* to Aborted from a phase that is not final; and every run eventually
\* reaches Done or Aborted and stays there.
C13_PhasesInOrder ==
    /\ [][pc' # pc => <<pc, pc'>> \in PhaseSteps]_vars
    /\ <>[](pc \in {"Done", "Aborted"})

\* C13 witness: a run that went through the whole dispatch loop with three
\* incidents and reached Done.
C13_Witness ==
    /\ pc = "Done"
    /\ Len(crime_events) = 3
    /\ Cardinality({k \in DOMAIN trace : trace[k].op = "return"}) >= 2

\* the lines the except clauses of run_patrol write
ErrorLines == {"RESOURCE ERROR", "CRISIS ALERT", "CONFIGURATION ERROR", "UNEXPECTED ERROR"}

ErrorLogged == \E k \in DOMAIN log : log[k] \in ErrorLines

C15_SeverityRanges ==
    ret # <<>> =>
        \A i \in DOMAIN ret[1] :
            /\ ret[1][i].status = "Active"
            /\ ret[1][i].type = "Super-villain Activity" => ret[1][i].severity \in 7..10
            /\ ret[1][i].type # "Super-villain Activity" => ret[1][i].severity \in 3..8
            /\ ret[1][i].severity \in 1..10

\* C15 witness: a batch with a super-villain incident of severity 7 and a
\* robbery of severity 8.
C15_Witness ==
    /\ ret # <<>>
    /\ Len(ret[1]) = 2
    /\ ret[1][1].type = "Super-villain Activity" /\ ret[1][1].severity = 7
    /\ ret[1][2].type = "Robbery" /\ ret[1][2].severity = 8

\* C16: generate_crime_events(n) returns exactly min(n, 8) incidents for
\* every n >= 0: past the 8 locations it stops and returns what it built.
C16_CountReturned ==
    ret # <<>> => Len(ret[1]) = Min(call.num_events, 8)

\* C16 witness: 9 incidents were requested and 8 returned, one per location.
C16_Witness ==
    /\ ret # <<>>
    /\ call.num_events = 9
    /\ Len(ret[1]) = 8
    /\ {ret[1][i].location : i \in DOMAIN ret[1]} = Range(GOTHAM_AREAS)

\* the two incidents have the same sort key
SameKey(a, b) == a.severity = b.severity /\ CRIME_PRIORITY(a.type) = CRIME_PRIORITY(b.type)

Occurrences(seq, x) == Cardinality({k \in DOMAIN seq : seq[k] = x})

\* C17: prioritize_crimes returns a permutation of its input (every incident
\* occurs as often in the output as in the input) and is stable: incidents
\* with equal severity and equal type priority keep their relative order.
C17_StablePermutation ==
    ret # <<>> =>
        /\ Len(ret[1]) = Len(call.crimes)
        /\ \A x \in Range(call.crimes) \cup Range(ret[1]) :
              Occurrences(ret[1], x) = Occurrences(call.crimes, x)
        /\ \A a, b \in Range(call.crimes) :
              SameKey(a, b) =>
                  SelectSeq(ret[1], LAMBDA c : c \in {a, b})
                      = SelectSeq(call.crimes, LAMBDA c : c \in {a, b})

\* C17 witness: two incidents of equal key at different locations, given
\* around a more severe one, come out behind it in the order given.
C17_Witness ==
    /\ ret # <<>>
    /\ Len(call.crimes) = 3
    /\ SameKey(call.crimes[1], call.crimes[3])
    /\ call.crimes[1].location # call.crimes[3].location
    /\ call.crimes[2].severity > call.crimes[1].severity
    /\ ret[1] = <<call.crimes[2], call.crimes[1], call.crimes[3]>>

\* the step is a call of dispatch_hero returning
DispatchReturns == call.fn = "dispatch_hero" /\ ret = <<>> /\ ret' # <<>>

\* C18 as stated: dispatch_hero changes neither the incident, the responder
\* nor any state of a run, and writes nothing to the patrol log.
C18_NoSideEffect ==
    [][DispatchReturns => (call' = call /\ UNCHANGED run_vars /\ log' = log)]_vars

\* C18 amended: dispatch_hero changes neither the incident (its status
\* included), the responder nor any state of a run; given no log file it
\* writes nothing; given a log file it appends to the patrol log the
\* specialty line when the responder's specialty matches the crime type,
\* then the result line and the details line, and nothing else.
C18_LogsWhenGivenLogFile ==
    [][DispatchReturns =>
          /\ call' = call
          /\ UNCHANGED run_vars
          /\ ~call.log_file => log' = log
          /\ call.log_file =>
                log' = log
                       \o (IF call.hero.specialty \in SPECIALTY_MATCHING(call.crime.type)
                           THEN <<"specialty is effective">> ELSE <<>>)
                       \o <<"dispatch result", "dispatch details">>]_vars

\* C18 witness: a call with a log file and a matching specialty has returned
\* and left three lines in the log, the incident still Active.
C18_Witness ==
    /\ ret # <<>>
    /\ call.fn = "dispatch_hero"
    /\ call.log_file
    /\ call.crime.status = "Active"
    /\ log = <<"specialty is effective", "dispatch result", "dispatch details">>

\* the step is a call of prioritize_crimes or match_hero_to_crime returning
ReadOnlyCallReturns ==
    /\ call.fn \in {"prioritize_crimes", "match_hero_to_crime"}
    /\ ret = <<>>
    /\ ret' # <<>>

\* C19: prioritize_crimes and match_hero_to_crime leave what they are given
\* as it was: the pool, the order of the incident list and every incident
\* (its status included) are the same after the call as before, no state of
\* a run is written, and what is returned is made of the incidents and
\* responders given.
C19_InputsUntouched ==
    [][ReadOnlyCallReturns =>
          /\ call' = call
          /\ UNCHANGED run_vars
          /\ call.fn = "prioritize_crimes" => Range(ret'[1]) = Range(call.crimes)
          /\ call.fn = "match_hero_to_crime" =>
                ret'[1] \in Range(call.heroes) \cup {NoHero}]_vars

\* C19 witness: prioritize_crimes returned three incidents in another order
\* than the list it was given, which still has its order.
C19_Witness ==
    /\ ret # <<>>
    /\ call.fn = "prioritize_crimes"
    /\ Len(call.crimes) = 3
    /\ call.crimes[1].severity < call.crimes[3].severity
    /\ ret[1][1] = call.crimes[3]
    /\ ret[1] # call.crimes

\* the ids of the records of the store but the last
EarlierIds == {criminals_db[i].id : i \in 1..(Len(criminals_db) - 1)}

\* C20: whatever creates and deletes came before, the store emptied by
\* deletes included, a create request succeeds: the response is 201, the
\* record returned is the last of the store, and its id is one more than the
\* largest id of the records before it, 1 when there is none, hence the id of
\* no other record.
C20_CreateAlwaysSucceeds ==
    (response # <<>> /\ response[1].op = "create") =>
        /\ response[1].status = 201
        /\ criminals_db # <<>>
        /\ criminals_db[Len(criminals_db)] = response[1].criminal
        /\ \A x \in EarlierIds : x < response[1].criminal.id
        /\ response[1].criminal.id - 1 \in EarlierIds \cup {0}
        /\ EarlierIds = {} => response[1].criminal.id = 1

\* the store before the step has no record with the id asked for
Missing(criminal_id) == \A i \in DOMAIN criminals_db : criminals_db[i].id # criminal_id

\* C21: a get, update or delete of an id that no record has answers 404 and
\* leaves the store as it was; with an id that a record has, get returns that
\* record and leaves the store as it was, update replaces that record alone
\* and keeps its id and its crimes, delete removes that record alone and keeps
\* the others in order.
C21_MissingIdIs404 ==
    [][(response' # <<>> /\ response'[1].op \in {"get", "update", "delete"}) =>
          LET r == response'[1]
              at_id == {i \in DOMAIN criminals_db : criminals_db[i].id = r.asked}
          IN  /\ Missing(r.asked) => (r.status = 404 /\ criminals_db' = criminals_db)
              /\ ~Missing(r.asked) =>
                    /\ r.status = 200
                    /\ Cardinality(at_id) = 1
                    /\ r.op = "get" => (criminals_db' = criminals_db /\ r.criminal.id = r.asked)
                    /\ r.op = "update" =>
                          /\ Len(criminals_db') = Len(criminals_db)
                          /\ \A i \in DOMAIN criminals_db :
                                IF i \in at_id
                                THEN /\ criminals_db'[i].id = r.asked
                                     /\ criminals_db'[i].crimes = criminals_db[i].crimes
                                     /\ criminals_db'[i].name \in {b.name : b \in CriminalBodies}
                                ELSE criminals_db'[i] = criminals_db[i]
                    /\ r.op = "delete" =>
                          /\ Len(criminals_db') = Len(criminals_db) - 1
                          /\ \A i \in DOMAIN criminals_db' :
                                criminals_db'[i] =
                                    criminals_db[IF \E k \in at_id : k <= i THEN i + 1 ELSE i]]_vars

\* C21 witness: an update of the Joker answered 200; the record has the new
\* name, its id and its two crimes, and the four other records are in place.
C21_Witness ==
    /\ response # <<>>
    /\ response[1].op = "update" /\ response[1].asked = 1 /\ response[1].status = 200
    /\ Len(criminals_db) = 5
    /\ criminals_db[1].id = 1 /\ criminals_db[1].name = "Bane"
    /\ Len(criminals_db[1].crimes) = 2
    /\ criminals_db[2].name = "Penguin"

\* incident i comes first in Priority Sorter order among the incidents in S:
\* before every other by key, or of equal key and generated earlier
FirstAmong(events, i, S) ==
    \A j \in S \ {i} :
        \/ StrictlyBefore(events[i], events[j])
        \/ ~StrictlyBefore(events[j], events[i]) /\ i < j

\* C22: the Generating step that logs a reallocation adds exactly one
\* location to the patrol set, that of the incident first in Priority Sorter
\* order among those outside the patrol areas, and a step that logs none adds
\* nothing; the patrol set does not change afterwards; so at the end every
\* incident whose location is in the patrol set (the reallocated one
\* included) is Resolved or Failed and every other one is Outside Patrol.
C22_ReallocationAddsOne ==
    /\ [][pc = "Generating" =>
            LET outside == {i \in DOMAIN crime_events' :
                               crime_events'[i].location \notin patrol_areas}
                fired == \E k \in (Len(log) + 1)..Len(log') : log'[k] = "Reallocating"
            IN  IF fired
                THEN /\ Cardinality(patrol_areas') = Cardinality(patrol_areas) + 1
                     /\ \E i \in outside :
                           /\ FirstAmong(crime_events', i, outside)
                           /\ patrol_areas' = patrol_areas \cup {crime_events'[i].location}
                ELSE patrol_areas' = patrol_areas]_vars
    /\ [][pc \notin {"Configuring", "Generating"} => patrol_areas' = patrol_areas]_vars
    /\ [](pc = "Done" =>
            \A i \in DOMAIN crime_events :
                IF crime_events[i].location \in patrol_areas
                THEN crime_events[i].status \in {"Resolved", "Failed"}
                ELSE crime_events[i].status = "Outside Patrol")

\* C22 witness: a finished run of three incidents, all outside the one area
\* selected, in which reallocation fired: the patrol set has two areas, one
\* incident was dispatched and the two others are Outside Patrol.
C22_Witness ==
    /\ pc = "Done"
    /\ \E k \in DOMAIN log : log[k] = "Reallocating"
    /\ num_areas = 1 /\ Cardinality(patrol_areas) = 2
    /\ Len(crime_events) = 3
    /\ Cardinality(WithStatus({"Outside Patrol"})) = 2
    /\ Cardinality(WithStatus({"Resolved", "Failed"})) = 1

\* C23: in a run whose configuration passed validation, each time the loop
\* is about to handle an incident the pool holds exactly the selected
\* responders, at least one; every match found somebody; no incident ever has
\* the status Unhandled; and at the end every incident whose location is in
\* the patrol set is Resolved or Failed.
C23_NeverUnhandled ==
    /\ (pc = "Dispatching" /\ at = "head") =>
          /\ Len(available_heroes) = num_heroes
          /\ num_heroes >= 1
          /\ Range(available_heroes) = Range(selected_heroes)
    /\ \A k \in DOMAIN trace : trace[k].op = "match" => trace[k].hero # "None"
    /\ \A i \in DOMAIN crime_events : crime_events[i].status # "Unhandled"
    /\ pc = "Done" =>
          \A i \in DOMAIN crime_events :
              crime_events[i].location \in patrol_areas =>
                  crime_events[i].status \in {"Resolved", "Failed"}

\* C23 witness: a finished run with a single responder who was matched to
\* two incidents, one after the other.
C23_Witness ==
    /\ pc = "Done"
    /\ num_heroes = 1
    /\ Cardinality({k \in DOMAIN trace : trace[k].op = "match"}) = 2
    /\ Cardinality(WithStatus({"Resolved", "Failed"})) = 2

\* C24: in a run whose configuration passed validation the pool holds the
\* num_heroes >= 1 selected responders while the run is Generating, and no
\* run aborts with the resource error: the log never has the RESOURCE ERROR
\* line and a run is Aborted only out of Configuring, before any incident
\* was generated.
C24_NoResourceError ==
    /\ pc = "Generating" =>
          /\ num_heroes >= 1
          /\ Len(available_heroes) = num_heroes
          /\ available_heroes = selected_heroes
    /\ \A k \in DOMAIN log : log[k] # "RESOURCE ERROR"
    /\ pc = "Aborted" =>
          /\ ~validate_patrol_config(num_heroes, num_areas)
          /\ crime_events = <<>>
          /\ patrol_areas = {}

\* C24 witness: reallocation fired and the run went on to Prioritizing with
\* its pool of one responder.
C24_Witness ==
    /\ pc = "Prioritizing"
    /\ log[Len(log)] = "Reallocating"
    /\ Len(available_heroes) = 1

\* C25: once the loop is over (Summarizing, and Done after it) the three
\* counters add up to the number of generated incidents, no incident is
\* still Active, and successes, failures and unhandled are the numbers of
\* incidents Resolved, Failed, and Outside Patrol or Unhandled.
C25_CountsAddUp ==
    pc \in {"Summarizing", "Done"} =>
        /\ successes + failures + unhandled = Len(crime_events)
        /\ WithStatus({"Active"}) = {}
        /\ \A i \in DOMAIN crime_events :
              crime_events[i].status \in {"Resolved", "Failed", "Outside Patrol", "Unhandled"}
        /\ Cardinality(WithStatus({"Resolved"})) = successes
        /\ Cardinality(WithStatus({"Failed"})) = failures
        /\ Cardinality(WithStatus({"Outside Patrol", "Unhandled"})) = unhandled

\* C25 witness: a run reaches Summarizing with one incident resolved, one
\* failed and one outside the patrol areas.
C25_Witness ==
    /\ pc = "Summarizing"
    /\ successes = 1 /\ failures = 1 /\ unhandled = 1
    /\ Len(crime_events) = 3

\* position of the responder of this name in the pool
PositionOf(pool, name) == CHOOSE i \in DOMAIN pool : pool[i].name = name

\* C26: with a pool drawn from the roster, an incident of any type but Drug
\* Deal goes to Batman when he is in the pool, whatever the order; for a Drug
\* Deal with Batman and Nightwing in the pool both score 12 and the one
\* earlier in the pool is selected; so when Batman was selected in the last
\* iteration, and re-appended at the end, a Drug Deal goes to Nightwing. The
\* responder selected is moved to the end of the pool.
C26_BatmanOrTie ==
    [][(call.fn = "dispatch_loop" /\ ret' # <<>>) =>
          LET pool == call.heroes
              names == {pool[i].name : i \in DOMAIN pool}
              type == call.crime.type
              chosen == ret'[1].name
          IN  /\ ("Batman" \in names /\ type \in Range(CRIME_TYPES) \ {"Drug Deal"}) =>
                    chosen = "Batman"
              /\ (type = "Drug Deal" /\ {"Batman", "Nightwing"} \subseteq names) =>
                    /\ hero_score(pool[PositionOf(pool, "Batman")], call.crime) = 12
                    /\ hero_score(pool[PositionOf(pool, "Nightwing")], call.crime) = 12
                    /\ chosen = IF PositionOf(pool, "Batman") < PositionOf(pool, "Nightwing")
                                THEN "Batman" ELSE "Nightwing"
                    /\ (ret # <<>> /\ ret[1].name = "Batman") => chosen = "Nightwing"
              /\ call'.heroes = SelectSeq(pool, LAMBDA h : h.name # chosen) \o <<ret'[1]>>]_vars

\* C26 witness: Nightwing was selected from a pool of three that had Batman
\* in it, and now stands at the end of the pool, right behind Batman.
C26_Witness ==
    /\ ret # <<>>
    /\ call.fn = "dispatch_loop"
    /\ ret[1].name = "Nightwing"
    /\ Len(call.heroes) = 3
    /\ call.heroes[2].name = "Batman"
    /\ call.heroes[3].name = "Nightwing"

\* an inmate passes the filters of a list_inmates request
Passes(inmate, q) ==
    /\ q.active # <<>> => inmate.is_active = q.active[1]
    /\ q.min_danger # <<>> => inmate.danger_level >= q.min_danger[1]
    /\ q.max_danger # <<>> => inmate.danger_level <= q.max_danger[1]
    /\ q.cell_block # <<>> => inmate.cell_block = q.cell_block[1]

\* the filtered result of the request in call
Filtered == SelectSeq(inmates_db, LAMBDA inmate : Passes(inmate, call))

\* ceil(total / size): the least number of pages of this size that hold total items
CeilDiv(total, size) == CHOOSE k \in 0..total : k * size >= total /\ (k > 0 => (k - 1) * size < total)

\* the items of pages 1..p of the request in call, one page after the other
RECURSIVE PagesConcat(_)
PagesConcat(p) ==
    IF p = 0 THEN <<>>
    ELSE PagesConcat(p - 1) \o
         list_inmates(inmates_db, call.active, call.min_danger, call.max_danger,
                      call.cell_block, p, call.size).items

\* C27: list_inmates reports total = the length of the filtered list and
\* pages = ceil(total / size); a page p in 1..pages holds the items at
\* positions (p-1)*size .. min(p*size, total)-1 of the filtered list in
\* order; a page beyond pages holds nothing; pages 1..pages one after the
\* other give the filtered list, every item exactly once.
C27_Pagination ==
    ret # <<>> =>
        LET r == ret[1]
            total == Len(Filtered)
            size == call.size
            p == call.page
        IN  /\ r.total = total
            /\ r.pages = CeilDiv(total, size)
            /\ p <= r.pages =>
                  /\ Len(r.items) = Min(p * size, total) - (p - 1) * size
                  /\ \A k \in 1..Len(r.items) : r.items[k] = Filtered[(p - 1) * size + k]
            /\ p > r.pages => r.items = <<>>
            /\ PagesConcat(r.pages) = Filtered

\* C27 witness: of five inmates three have danger level 8 or more; page 2 of
\* size 2 holds the third alone, and there are 2 pages
C27_Witness ==
    /\ ret # <<>>
    /\ Len(inmates_db) = 5
    /\ call.min_danger = <<8>>
    /\ call.page = 2
    /\ call.size = 2
    /\ ret[1].total = 3
    /\ ret[1].pages = 2
    /\ Len(ret[1].items) = 1

\* C28: every incident and every treatment record refers to an inmate id
\* that is present in inmates_db.
C28_RecordsReferToInmates ==
    /\ \A i \in DOMAIN incidents_db : has_id(inmates_db, incidents_db[i].inmate_id)
    /\ \A i \in DOMAIN treatment_records_db :
          has_id(inmates_db, treatment_records_db[i].inmate_id)

\* C29: an id handed out to an inmate is never handed out again to an inmate
\* created later.
C29_IdsNeverReissued ==
    \A i, j \in DOMAIN ids_issued : i # j => ids_issued[i] # ids_issued[j]

\* C30: at the end of a fight that the hero won and that left the villain's
\* health at or below 0, the villain is captured: is_captured is True and the
\* villain is in that hero's villains_captured.
C30_DefeatedIsCaptured ==
    (/\ ret # <<>>
     /\ ret[1].op = "fight"
     /\ ret[1].message # "got away"
     /\ health[ret[1].villain] <= 0)
    => /\ is_captured[ret[1].villain]
       /\ ret[1].villain \in Range(villains_captured[ret[1].hero])

====
